---- MODULE Spec2Model ----
(***************************************************************************)
(* Model of car-doctor-server-v2 (src/index.js): an Express application    *)
(* over two MongoDB collections with a cookie-borne JSON Web Token.        *)
(*                                                                         *)
(* Every request is one action: a handler awaits at most one store call,   *)
(* so a request is linearised at that call.  The clock counts whole        *)
(* seconds, the unit of the iat/exp claims of a token.                     *)
(***************************************************************************)
EXTENDS Integers, FiniteSets, Sequences, TLC

\* ---------------------------------------------------------------- bounds
MaxBookings == 2
MaxTicks == 1

\* { expiresIn: '1h' }, in seconds
ExpiresIn == 3600

\* ------------------------------------------------------------ value sets
Emails == {"a@x", "b@x"}
\* a field that is absent (undefined) in a request
NoEmail == "undefined"
Statuses == {"pending", "done"}

\* process.env.SECRET_ACCESS_TOKEN, and a secret the server does not hold
Secret == "SECRET_ACCESS_TOKEN"
OtherSecret == "another secret"

\* req.params.id: a positive number stands for a 24-digit hex string, a
\* negative one for a string ObjectId cannot be built from
MalformedIds == {-1}
IdInputs == (1..MaxBookings) \cup MalformedIds
\* for GET /services/:id: a service, a key of no service, a malformed string
ServiceIdInputs == {1, 2} \cup MalformedIds

\* the iat field of a POST /jwt body: 0 is a body without one
IatInputs == {0, ExpiresIn}

\* how far the clock moves between two requests
TickSteps == {ExpiresIn - 1, ExpiresIn}

\* req.cookies.token when the request carries no token cookie
NoToken == [email |-> NoEmail, iat |-> 0, exp |-> 0, sig |-> "none"]
\* req.user before verifyToken has set it
NoUser == [email |-> NoEmail, iat |-> 0, exp |-> 0]

RunRoutes == {"POST /jwt", "POST /logout", "GET /services", "GET /services/:id",
              "POST /bookings", "GET /bookings", "PATCH /bookings/:id",
              "DELETE /bookings/:id"}
StoreRoutes == RunRoutes \ {"POST /jwt", "POST /logout"}
IdRoutes == {"GET /services/:id", "PATCH /bookings/:id", "DELETE /bookings/:id"}
AllRoutes == RunRoutes \cup {"GET /"}

\* the routes registered by the time the process starts serving: run() has
\* suspended at await client.connect(), and app.get('/') has been called
RoutesAtStart_eager == AllRoutes
RoutesAtStart == {"GET /"}

\* the services collection, filled out of band
ServiceDocs == {[_id |-> 1, service_id |-> "04", title |-> "Engine Oil Change",
                 img |-> "https://i.ibb.co/1.jpg", price |-> "20.00",
                 description |-> "long text"]}

VARIABLES
    conn,               \* client.connect(): "connecting", "connected", "failed"
    routes,             \* the routes registered on app
    now,                \* Math.floor(Date.now() / 1000)
    ticks,              \* how often the clock has moved
    serviceCollection,  \* carDoctor.services
    bookingCollection,  \* carDoctor.bookings
    nextId,             \* the next ObjectId the driver generates
    cookie,             \* the token cookie of the browser
    kept,               \* the token a caller kept when the cookie was cleared
    inserted,           \* the bookings POST /bookings has inserted
    deleted,            \* the ids DELETE /bookings/:id has deleted
    resp                \* the response being sent, with the request it answers

vars == <<conn, routes, now, ticks, serviceCollection, bookingCollection,
          nextId, cookie, kept, inserted, deleted, resp>>

\* ------------------------------------------------------------ jsonwebtoken
\* jwt.sign(payload, secret, { expiresIn: '1h' }): an iat of the payload is
\* used in place of the clock (payload.iat || now), and exp is counted from it
JwtSign(payload, secret, t) ==
    LET timestamp == IF payload.iat # 0 THEN payload.iat ELSE t
    IN [email |-> payload.email, iat |-> timestamp,
        exp |-> timestamp + ExpiresIn, sig |-> secret]

JwtVerify_sessionBound(token, secret, t) ==
    IF token.sig # secret \/ t >= token.exp \/ token # cookie
    THEN [err |-> TRUE, decoded |-> NoUser]
    ELSE [err |-> FALSE,
          decoded |-> [email |-> token.email, iat |-> token.iat, exp |-> token.exp]]

\* jwt.verify(token, secret, callback): the signature, then the expiry
JwtVerify(token, secret, t) ==
    IF token.sig # secret \/ t >= token.exp
    THEN [err |-> TRUE, decoded |-> NoUser]
    ELSE [err |-> FALSE,
          decoded |-> [email |-> token.email, iat |-> token.iat, exp |-> token.exp]]

\* ---------------------------------------------------------------- middleware
verifyToken_fallthrough(token, t) ==
    IF token = NoToken
    THEN [next |-> TRUE, status |-> 401, message |-> "Unauthorized access",
          user |-> NoUser]
    ELSE LET v == JwtVerify(token, Secret, t)
         IN IF v.err
            THEN [next |-> TRUE, status |-> 401,
                  message |-> "Invalid or expired token", user |-> NoUser]
            ELSE [next |-> TRUE, status |-> 200, message |-> "", user |-> v.decoded]

verifyToken_swapped(token, t) ==
    IF token = NoToken
    THEN [next |-> FALSE, status |-> 401, message |-> "Invalid or expired token",
          user |-> NoUser]
    ELSE LET v == JwtVerify(token, Secret, t)
         IN IF v.err
            THEN [next |-> FALSE, status |-> 401,
                  message |-> "Unauthorized access", user |-> NoUser]
            ELSE [next |-> TRUE, status |-> 200, message |-> "", user |-> v.decoded]

\* verifyToken(req, res, next): next is whether the chain goes on
verifyToken(token, t) ==
    IF token = NoToken
    THEN [next |-> FALSE, status |-> 401, message |-> "Unauthorized access",
          user |-> NoUser]
    ELSE LET v == JwtVerify(token, Secret, t)
         IN IF v.err
            THEN [next |-> FALSE, status |-> 401,
                  message |-> "Invalid or expired token", user |-> NoUser]
            ELSE [next |-> TRUE, status |-> 200, message |-> "", user |-> v.decoded]

\* ---------------------------------------------------------------- the store
ObjectIdValid_lenient(id) == TRUE
\* new ObjectId(id) throws unless id is a well-formed key
ObjectIdValid(id) == id > 0

Ids(coll) == {d._id : d \in coll}

\* collection.find({ email }).toArray(): the documents with that email
Find(coll, email) == {b \in coll : b.email = email}

\* collection.findOne({ _id }, { projection }): the set of the found document
FindOne(coll, id) ==
    {[_id |-> d._id, service_id |-> d.service_id, title |-> d.title,
      img |-> d.img, price |-> d.price] : d \in {x \in coll : x._id = id}}

InsertOne_noEmail(coll, doc, id) ==
    coll \cup {[_id |-> id, email |-> NoEmail, status |-> doc.status]}
\* collection.insertOne(doc): the driver adds the generated _id
InsertOne(coll, doc, id) ==
    coll \cup {[_id |-> id, email |-> doc.email, status |-> doc.status]}

UpdateOne_many(coll, id, status) ==
    IF id \in Ids(coll) THEN {[b EXCEPT !.status = status] : b \in coll} ELSE coll
\* collection.updateOne({ _id }, { $set: { status } })
UpdateOne(coll, id, status) ==
    {IF b._id = id THEN [b EXCEPT !.status = status] ELSE b : b \in coll}

DeleteOne_byEmail(coll, id) ==
    {b \in coll : \A d \in coll : d._id = id => b.email # d.email}
\* collection.deleteOne({ _id })
DeleteOne(coll, id) == {b \in coll : b._id # id}

\* ---------------------------------------------------------------- responses
NoResult == [matchedCount |-> 0, modifiedCount |-> 0, deletedCount |-> 0,
             insertedId |-> 0]

Request(route) ==
    [route |-> route, token |-> NoToken, email |-> NoEmail, id |-> 0,
     status |-> "", iat |-> 0]

\* fault is the exception a handler's catch block received: "none", "bson"
\* (new ObjectId threw) or "store" (the awaited store call rejected)
Response(req, status, message) ==
    [req |-> req, status |-> status,
     message |-> message, docs |-> {}, result |-> NoResult, user |-> NoUser,
     chain |-> <<"logger", "handler">>, storeCalls |-> 0, fault |-> "none"]

\* no response is being sent
NoResp == [Response(Request("none"), 0, "") EXCEPT !.chain = <<>>]

EmailMismatch_never(user, email) == FALSE
\* req.user.email !== email
EmailMismatch(user, email) == user.email # email

\* ---------------------------------------------------------------- start
Init ==
    /\ conn = "connecting"
    /\ routes = RoutesAtStart
    /\ now = 0
    /\ ticks = 0
    /\ serviceCollection = ServiceDocs
    /\ bookingCollection = {}
    /\ nextId = 1
    /\ cookie = NoToken
    /\ kept = NoToken
    /\ inserted = {}
    /\ deleted = {}
    /\ resp = NoResp

\* await client.connect() resolves: run() registers its routes
ConnectSucceeds ==
    /\ conn = "connecting"
    /\ conn' = "connected"
    /\ routes' = routes \cup RunRoutes
    /\ UNCHANGED <<now, ticks, serviceCollection, bookingCollection, nextId,
                   cookie, kept, inserted, deleted, resp>>

\* await client.connect() rejects: the catch block logs, nothing is registered
ConnectFails ==
    /\ conn = "connecting"
    /\ conn' = "failed"
    /\ UNCHANGED <<routes, now, ticks, serviceCollection, bookingCollection,
                   nextId, cookie, kept, inserted, deleted, resp>>

Tick ==
    /\ resp = NoResp
    /\ ticks < MaxTicks
    /\ \E d \in TickSteps : now' = now + d
    /\ ticks' = ticks + 1
    /\ UNCHANGED <<conn, routes, serviceCollection, bookingCollection, nextId,
                   cookie, kept, inserted, deleted, resp>>

\* a request no registered route matches: the framework's 404
NotFound ==
    /\ resp = NoResp
    /\ \E route \in AllRoutes \ routes :
           resp' = [Response(Request(route), 404, "Not Found") EXCEPT !.chain = <<>>]
    /\ UNCHANGED <<conn, routes, now, ticks, serviceCollection, bookingCollection,
                   nextId, cookie, kept, inserted, deleted>>

Root ==
    /\ resp = NoResp
    /\ "GET /" \in routes
    /\ resp' = [Response(Request("GET /"), 200, "Doctor is running")
                    EXCEPT !.chain = <<"handler">>]
    /\ UNCHANGED <<conn, routes, now, ticks, serviceCollection, bookingCollection,
                   nextId, cookie, kept, inserted, deleted>>

PostJwt ==
    /\ resp = NoResp
    /\ "POST /jwt" \in routes
    /\ \E email \in Emails, iat \in IatInputs :
           LET req == [Request("POST /jwt") EXCEPT !.email = email, !.iat = iat]
               token == JwtSign([email |-> email, iat |-> iat], Secret, now)
           IN /\ cookie' = token
              /\ resp' = Response(req, 200, "success")
    /\ UNCHANGED <<conn, routes, now, ticks, serviceCollection, bookingCollection,
                   nextId, kept, inserted, deleted>>

Logout ==
    /\ resp = NoResp
    /\ "POST /logout" \in routes
    /\ cookie' = NoToken
    /\ kept' = IF cookie # NoToken THEN cookie ELSE kept
    /\ resp' = Response(Request("POST /logout"), 200, "success")
    /\ UNCHANGED <<conn, routes, now, ticks, serviceCollection, bookingCollection,
                   nextId, inserted, deleted>>

GetServices ==
    /\ resp = NoResp
    /\ "GET /services" \in routes
    /\ \E ok \in BOOLEAN :
           LET req == Request("GET /services")
           IN resp' = IF ok
                      THEN [Response(req, 200, "") EXCEPT
                                !.docs = serviceCollection, !.storeCalls = 1]
                      ELSE [Response(req, 500, "Failed to retrieve services") EXCEPT
                                !.storeCalls = 1, !.fault = "store"]
    /\ UNCHANGED <<conn, routes, now, ticks, serviceCollection, bookingCollection,
                   nextId, cookie, kept, inserted, deleted>>

GetServiceById ==
    /\ resp = NoResp
    /\ "GET /services/:id" \in routes
    /\ \E id \in ServiceIdInputs, ok \in BOOLEAN :
           LET req == [Request("GET /services/:id") EXCEPT !.id = id]
               service == FindOne(serviceCollection, id)
           IN resp' =
                  IF ~ObjectIdValid(id)
                  THEN [Response(req, 500, "Failed to retrieve service") EXCEPT
                            !.fault = "bson"]
                  ELSE IF ~ok
                  THEN [Response(req, 500, "Failed to retrieve service") EXCEPT
                            !.storeCalls = 1, !.fault = "store"]
                  ELSE IF service # {}
                  THEN [Response(req, 200, "") EXCEPT
                            !.docs = service, !.storeCalls = 1]
                  ELSE [Response(req, 404, "Service not found") EXCEPT
                            !.storeCalls = 1]
    /\ UNCHANGED <<conn, routes, now, ticks, serviceCollection, bookingCollection,
                   nextId, cookie, kept, inserted, deleted>>

PostBookings ==
    /\ resp = NoResp
    /\ "POST /bookings" \in routes
    /\ nextId <= MaxBookings
    /\ \E email \in Emails, status \in Statuses, ok \in BOOLEAN :
           LET req == [Request("POST /bookings") EXCEPT
                           !.email = email, !.status = status]
           IN IF ok
              THEN /\ bookingCollection' = InsertOne(bookingCollection, req, nextId)
                   /\ nextId' = nextId + 1
                   /\ inserted' = inserted \cup {[_id |-> nextId, email |-> email]}
                   /\ resp' = [Response(req, 200, "") EXCEPT
                                   !.result.insertedId = nextId, !.storeCalls = 1]
              ELSE /\ resp' = [Response(req, 500, "Failed to create booking") EXCEPT
                                   !.storeCalls = 1, !.fault = "store"]
                   /\ UNCHANGED <<bookingCollection, nextId, inserted>>
    /\ UNCHANGED <<conn, routes, now, ticks, serviceCollection, cookie, kept,
                   deleted>>

\* the tokens a caller can present: none, the cookie, the token kept from
\* before a logout, or one signed with a secret of the caller's own
TokenInputs ==
    {NoToken, cookie, kept,
     JwtSign([email |-> "a@x", iat |-> 0], OtherSecret, now)}

GetBookings ==
    /\ resp = NoResp
    /\ "GET /bookings" \in routes
    /\ \E token \in TokenInputs, email \in Emails \cup {NoEmail}, ok \in BOOLEAN :
           LET req == [Request("GET /bookings") EXCEPT
                           !.token = token, !.email = email]
               auth == verifyToken(token, now)
           IN resp' =
                  IF ~auth.next
                  THEN [Response(req, auth.status, auth.message) EXCEPT
                            !.chain = <<"logger", "verifyToken">>]
                  ELSE IF EmailMismatch(auth.user, email)
                  THEN [Response(req, 403, "Forbidden access") EXCEPT
                            !.chain = <<"logger", "verifyToken", "handler">>,
                            !.user = auth.user]
                  ELSE IF ~ok
                  THEN [Response(req, 500, "Failed to retrieve bookings") EXCEPT
                            !.chain = <<"logger", "verifyToken", "handler">>,
                            !.user = auth.user, !.storeCalls = 1, !.fault = "store"]
                  ELSE [Response(req, 200, "") EXCEPT
                            !.chain = <<"logger", "verifyToken", "handler">>,
                            !.user = auth.user, !.storeCalls = 1,
                            !.docs = Find(bookingCollection, email)]
    /\ UNCHANGED <<conn, routes, now, ticks, serviceCollection, bookingCollection,
                   nextId, cookie, kept, inserted, deleted>>

PatchBooking ==
    /\ resp = NoResp
    /\ "PATCH /bookings/:id" \in routes
    /\ \E id \in IdInputs, status \in Statuses, ok \in BOOLEAN :
           LET req == [Request("PATCH /bookings/:id") EXCEPT
                           !.id = id, !.status = status]
               after == UpdateOne(bookingCollection, id, status)
           IN IF ~ObjectIdValid(id)
              THEN /\ resp' = [Response(req, 500, "Failed to update booking") EXCEPT
                                   !.fault = "bson"]
                   /\ UNCHANGED bookingCollection
              ELSE IF ~ok
              THEN /\ resp' = [Response(req, 500, "Failed to update booking") EXCEPT
                                   !.storeCalls = 1, !.fault = "store"]
                   /\ UNCHANGED bookingCollection
              ELSE /\ bookingCollection' = after
                   /\ resp' = [Response(req, 200, "") EXCEPT
                                   !.storeCalls = 1,
                                   !.result.matchedCount =
                                       IF id \in Ids(bookingCollection) THEN 1 ELSE 0,
                                   !.result.modifiedCount =
                                       IF after # bookingCollection THEN 1 ELSE 0]
    /\ UNCHANGED <<conn, routes, now, ticks, serviceCollection, nextId, cookie,
                   kept, inserted, deleted>>

DeleteBooking ==
    /\ resp = NoResp
    /\ "DELETE /bookings/:id" \in routes
    /\ \E id \in IdInputs, ok \in BOOLEAN :
           LET req == [Request("DELETE /bookings/:id") EXCEPT !.id = id]
               after == DeleteOne(bookingCollection, id)
           IN IF ~ObjectIdValid(id)
              THEN /\ resp' = [Response(req, 500, "Failed to delete booking") EXCEPT
                                   !.fault = "bson"]
                   /\ UNCHANGED <<bookingCollection, deleted>>
              ELSE IF ~ok
              THEN /\ resp' = [Response(req, 500, "Failed to delete booking") EXCEPT
                                   !.storeCalls = 1, !.fault = "store"]
                   /\ UNCHANGED <<bookingCollection, deleted>>
              ELSE /\ bookingCollection' = after
                   /\ deleted' = IF id \in Ids(bookingCollection)
                                 THEN deleted \cup {id} ELSE deleted
                   /\ resp' = [Response(req, 200, "") EXCEPT
                                   !.storeCalls = 1,
                                   !.result.deletedCount =
                                       Cardinality(bookingCollection)
                                           - Cardinality(after)]
    /\ UNCHANGED <<conn, routes, now, ticks, serviceCollection, nextId, cookie,
                   kept, inserted>>

\* res.send(...): the response leaves, the next request is served
Deliver ==
    /\ resp # NoResp
    /\ resp' = NoResp
    /\ UNCHANGED <<conn, routes, now, ticks, serviceCollection, bookingCollection,
                   nextId, cookie, kept, inserted, deleted>>

Next ==
    \/ ConnectSucceeds
    \/ ConnectFails
    \/ Tick
    \/ NotFound
    \/ Root
    \/ PostJwt
    \/ Logout
    \/ GetServices
    \/ GetServiceById
    \/ PostBookings
    \/ GetBookings
    \/ PatchBooking
    \/ DeleteBooking
    \/ Deliver

Spec == Init /\ [][Next]_vars

\* ------------------------------------------------------------------ claims
\* A request reached the chain of a registered route (a request that matched
\* no route has run no chain and is answered 404)
Routed(route) == resp.req.route = route /\ resp.chain # <<>>

\* what the claims mean by a token that verifies at time t
TokenValid(token, t) == token # NoToken /\ token.sig = Secret /\ t < token.exp

\* a step in which the request `route` is handled by its registered chain
Handles(route) ==
    /\ resp = NoResp
    /\ resp'.req.route = route
    /\ resp'.chain # <<>>

\* C1: GET /bookings returns a list of bookings only when the token verified
\* and its email claim is exactly the email query parameter, and then every
\* returned booking has that email; when the verified token's email differs
\* from the query email the answer is 403 "Forbidden access" and no booking is
\* read from the store.
C1_BookingsOnlyToOwner ==
    Routed("GET /bookings") =>
        /\ (resp.status = 200 \/ resp.docs # {}) =>
               /\ TokenValid(resp.req.token, now)
               /\ resp.req.token.email = resp.req.email
               /\ resp.user.email = resp.req.email
               /\ \A b \in resp.docs : b.email = resp.req.email
        /\ (TokenValid(resp.req.token, now)
                /\ resp.req.token.email # resp.req.email) =>
               /\ resp.status = 403
               /\ resp.message = "Forbidden access"
               /\ resp.storeCalls = 0
               /\ resp.docs = {}

C1_Witness ==
    /\ Routed("GET /bookings")
    /\ resp.status = 200
    /\ resp.docs # {}
    /\ \E b \in bookingCollection : b.email # resp.req.email

\* C2: a GET /bookings request with no token cookie, or with a token that
\* fails verification (wrong secret, or expired), is answered 401 by the
\* authentication middleware, which halts the chain: the bookings handler
\* does not run and no store operation is issued.
C2_UnauthenticatedHalts ==
    (Routed("GET /bookings") /\ ~TokenValid(resp.req.token, now)) =>
        /\ resp.status = 401
        /\ resp.chain = <<"logger", "verifyToken">>
        /\ resp.storeCalls = 0
        /\ resp.docs = {}

C2_Witness ==
    /\ Routed("GET /bookings")
    /\ resp.req.token.sig = Secret
    /\ now >= resp.req.token.exp
    /\ resp.status = 401
    /\ bookingCollection # {}

\* C3 (as amended): when the token cookie is absent the 401 of the
\* authentication middleware carries "Unauthorized access", and when a token
\* is present but verify fails it carries "Invalid or expired token".
C3_Messages ==
    Routed("GET /bookings") =>
        /\ resp.req.token = NoToken =>
               resp.status = 401 /\ resp.message = "Unauthorized access"
        /\ (resp.req.token # NoToken /\ ~TokenValid(resp.req.token, now)) =>
               resp.status = 401 /\ resp.message = "Invalid or expired token"

C3_Witness ==
    /\ Routed("GET /bookings")
    /\ resp.req.token.sig = OtherSecret
    /\ resp.status = 401
    /\ resp.message = "Invalid or expired token"

\* C3 as stated: a token that is present but fails verification is answered
\* 401 with the message "Invalid token".
C3_Original ==
    Routed("GET /bookings") =>
        /\ resp.req.token = NoToken =>
               resp.status = 401 /\ resp.message = "Unauthorized access"
        /\ (resp.req.token # NoToken /\ ~TokenValid(resp.req.token, now)) =>
               resp.status = 401 /\ resp.message = "Invalid token"

\* the distances from the issuance at which C4 looks at a token
ProbeOffsets == {0, 1, ExpiresIn - 1, ExpiresIn + 1, 2 * ExpiresIn - 1}

\* C4: the token POST /jwt issues for a claims payload is accepted by verify
\* at every time before one hour has elapsed since the issuance, yielding the
\* signed claims, and is rejected at every time after that hour.
C4_TokenRoundTrip ==
    Routed("POST /jwt") =>
        \A d \in ProbeOffsets :
            LET v == JwtVerify(cookie, Secret, now + d)
            IN /\ d < ExpiresIn => ~v.err /\ v.decoded.email = resp.req.email
               /\ d > ExpiresIn => v.err

\* C5: whether a token is accepted depends only on its signature and its
\* expiry at the time of verification, whatever requests came in between:
\* GET /bookings answers 401 exactly when the token is absent, not signed
\* with the server's secret, or past its exp; a token the cookie of which
\* POST /logout has cleared is still accepted within its hour.
C5_StatelessToken ==
    Routed("GET /bookings") =>
        /\ resp.status = 401 <=>
               \/ resp.req.token = NoToken
               \/ resp.req.token.sig # Secret
               \/ now >= resp.req.token.exp
        /\ resp.status # 401 =>
               /\ resp.user.email = resp.req.token.email
               /\ resp.user.exp = resp.req.token.exp

\* the token was cleared by POST /logout, another one was issued since, and
\* the cleared one is accepted
C5_Witness ==
    /\ Routed("GET /bookings")
    /\ kept # NoToken
    /\ cookie \notin {NoToken, kept}
    /\ resp.req.token = kept
    /\ resp.status = 200

\* C6: after a successful POST /bookings of a document whose email is E, a
\* later GET /bookings?email=E with a valid token for E, the store read of
\* which does not fail, returns a list that includes the inserted booking,
\* unless that booking was deleted in between.
C6_InsertedIsListed ==
    (/\ Routed("GET /bookings")
     /\ TokenValid(resp.req.token, now)
     /\ resp.req.token.email = resp.req.email
     /\ resp.fault = "none") =>
        /\ resp.status = 200
        /\ \A i \in inserted :
               (i.email = resp.req.email /\ i._id \notin deleted) =>
                   \E b \in resp.docs : b._id = i._id /\ b.email = i.email

C6_Witness ==
    /\ Routed("GET /bookings")
    /\ resp.status = 200
    /\ deleted # {}
    /\ \E i \in inserted : i.email = resp.req.email /\ i._id \notin deleted

\* what a step that is no handled PATCH does to the status of a booking
KeepsStatus ==
    \A b \in bookingCollection : \A c \in bookingCollection' :
        c._id = b._id => c.status = b.status

\* a handled GET /bookings that answers 200 returns what the store holds
ReadsStore ==
    (Handles("GET /bookings") /\ resp'.status = 200) =>
        resp'.docs = {b \in bookingCollection' : b.email = resp'.req.email}

\* C7: PATCH /bookings/:id {status: s} on an existing booking sets that
\* booking's status to s and changes no other field of it and no other
\* booking; every later read shows it (no other request changes a status and
\* a read returns what the store holds); on a well-formed id that matches no
\* booking it answers 200 with zero affected and leaves the collection
\* unchanged.  The store call is taken not to fail.
C7_PatchSetsStatusOnly ==
    [][/\ (Handles("PATCH /bookings/:id") /\ resp'.fault = "none") =>
              LET id == resp'.req.id
                  s == resp'.req.status
              IN /\ resp'.status = 200
                 /\ Ids(bookingCollection') = Ids(bookingCollection)
                 /\ Cardinality(bookingCollection') = Cardinality(bookingCollection)
                 /\ \A b \in bookingCollection : \E c \in bookingCollection' :
                        /\ c._id = b._id
                        /\ c.email = b.email
                        /\ c.status = IF b._id = id THEN s ELSE b.status
                 /\ resp'.result.matchedCount =
                        IF id \in Ids(bookingCollection) THEN 1 ELSE 0
                 /\ id \notin Ids(bookingCollection) =>
                        /\ resp'.result.modifiedCount = 0
                        /\ bookingCollection' = bookingCollection
       /\ ~Handles("PATCH /bookings/:id") => KeepsStatus
       /\ ReadsStore]_vars

C7_Witness ==
    /\ Routed("PATCH /bookings/:id")
    /\ resp.status = 200
    /\ resp.result.modifiedCount = 1
    /\ \E b \in bookingCollection : b._id # resp.req.id /\ b.status # resp.req.status

\* C8: DELETE /bookings/:id on an existing booking removes exactly that
\* booking, for good: the other bookings are unchanged and no later read
\* returns it; on a well-formed id that matches no booking it answers 200
\* with zero affected and leaves the collection unchanged.  The store call is
\* taken not to fail.
C8_DeleteRemovesExactlyOne ==
    [][/\ (Handles("DELETE /bookings/:id") /\ resp'.fault = "none") =>
              LET id == resp'.req.id
              IN /\ resp'.status = 200
                 /\ bookingCollection' = {b \in bookingCollection : b._id # id}
                 /\ resp'.result.deletedCount =
                        IF id \in Ids(bookingCollection) THEN 1 ELSE 0
                 /\ id \in Ids(bookingCollection) => id \in deleted'
       /\ \A id \in deleted' :
              /\ id \notin Ids(bookingCollection')
              /\ Routed("GET /bookings")' => \A d \in resp'.docs : d._id # id
       /\ \A id \in 1..(nextId - 1) :
              id \notin Ids(bookingCollection) => id \notin Ids(bookingCollection')]_vars

C8_Witness ==
    /\ Routed("DELETE /bookings/:id")
    /\ resp.status = 200
    /\ resp.result.deletedCount = 1
    /\ \E b \in bookingCollection : \E i \in inserted :
           i._id = resp.req.id /\ i.email = b.email

\* the message of a handler's catch block
StaticMessage(route) ==
    CASE route = "GET /services" -> "Failed to retrieve services"
      [] route = "GET /services/:id" -> "Failed to retrieve service"
      [] route = "POST /bookings" -> "Failed to create booking"
      [] route = "GET /bookings" -> "Failed to retrieve bookings"
      [] route = "PATCH /bookings/:id" -> "Failed to update booking"
      [] route = "DELETE /bookings/:id" -> "Failed to delete booking"

\* C9: on every store-backed endpoint a failure while handling the request is
\* answered 500 with the handler's static message; a failed store operation
\* was attempted once; a malformed id on GET /services/:id, PATCH
\* /bookings/:id or DELETE /bookings/:id fails before any store call; in both
\* cases the request leaves the store unchanged.
C9_FailureIsTerminal ==
    [][\A route \in StoreRoutes :
           Handles(route) =>
               /\ (route \in IdRoutes /\ resp'.req.id \in MalformedIds) =>
                      resp'.fault = "bson"
               /\ resp'.fault = "bson" => resp'.storeCalls = 0
               /\ resp'.fault = "store" => resp'.storeCalls = 1
               /\ resp'.status = 500 <=> resp'.fault # "none"
               /\ resp'.fault # "none" =>
                      /\ resp'.message = StaticMessage(route)
                      /\ resp'.docs = {}
                      /\ resp'.result = NoResult
                      /\ bookingCollection' = bookingCollection
                      /\ serviceCollection' = serviceCollection]_vars

C9_Witness ==
    /\ Routed("DELETE /bookings/:id")
    /\ resp.req.id \in MalformedIds
    /\ resp.status = 500
    /\ resp.storeCalls = 0
    /\ bookingCollection # {}

\* C10: run() registers the handlers of /jwt, /logout, /services and
\* /bookings only once the store connection has succeeded, while GET / is
\* answered from the start: no handler issues a store operation on an
\* unconnected store, and a request to one of those paths before the
\* connection completes, or after it failed, is answered 404.
C10_RoutesAfterConnect ==
    /\ "GET /" \in routes
    /\ routes \cap RunRoutes # {} => conn = "connected"
    /\ Routed("GET /") => resp.status = 200
    /\ resp.storeCalls > 0 => conn = "connected"
    /\ (resp.req.route \in RunRoutes /\ conn # "connected") =>
           /\ resp.status = 404
           /\ resp.chain = <<>>
           /\ resp.storeCalls = 0

C10_Witness ==
    /\ conn = "failed"
    /\ resp.req.route = "GET /bookings"
    /\ resp.status = 404

====
